---- MODULE Spec2Model ----
(***************************************************************************)
(* Playback engine (src/App.tsx) and generation pipeline                   *)
(* (src/unnamed/part_002, the AudioController component) of the            *)
(* book-reader application.                                                *)
(*                                                                         *)
(* Units.  One hardware-clock step of the model is 0.1 s of                *)
(* AudioContext.currentTime.  Positions, offsets and durations are counted *)
(* in units of 0.1 s of audio.  A playback rate is the number of audio     *)
(* units rendered per clock step, so the slider values 1.0x and 2.0x are   *)
(* the rates 1 and 2, and the 0.1 s end tolerance is 1 unit.               *)
(*                                                                         *)
(* React.  A handler's state updates are batched; the render that follows  *)
(* and the effects it schedules (in declaration order, re-rendering while  *)
(* an effect changes state) complete before the next task runs, so every   *)
(* action below is a handler together with the commit it causes.           *)
(***************************************************************************)
EXTENDS Integers, Sequences, FiniteSets, TLC

VARIABLES
    book,                 \* App state: "book" while one is loaded, else "null"
    audioSegments,        \* App state: the playlist
    currentSegment,       \* App state: selected segment, NoSegment when null
    isPlaying,            \* App state
    duration,             \* App state
    currentTime,          \* App state: the reported position
    playbackRate,         \* App state (playbackRateRef mirrors it at render)
    sourceNodeRef,        \* ref: id of the current source node, 0 when null
    animationFrameRef,    \* ref: TRUE while a frame callback is requested
    startOffsetRef,       \* ref
    contextStartTimeRef,  \* ref: the clock anchor
    sources,              \* the AudioBufferSourceNodes still known to the host
    now,                  \* AudioContext.currentTime
    timers,               \* pending setTimeout(() => setIsPlaying(true), 0)
    run,                  \* the handleGenerate call in flight, as the engine sees it
    hist,                 \* the last engine operation and its argument
    error,                \* App state: the text of the error banner, "null" when null
    gen                   \* the mounted AudioController and its handleGenerate call

vars == <<book, audioSegments, currentSegment, isPlaying, duration,
          currentTime, playbackRate, sourceNodeRef, animationFrameRef,
          startOffsetRef, contextStartTimeRef, sources, now, timers,
          run, hist, error, gen>>

\* ------------------------------------------------------------------ bounds

MaxClock == 3
MaxSegments == 2
MaxTimers == 1

\* ------------------------------------------------------- program constants

EndTolerance == 1
DefaultRate == 1
Rates == {1, 2}
Durations == {2, 3}

\* A segment is its id and the duration of its audio buffer.  Ids are unique
\* tokens in the source; a segment is reachable only through the playlist and
\* currentSegment, which resetState clears together, so the id of a new
\* segment is taken fresh with respect to the playlist it joins.
NoSegment == [id |-> 0, dur |-> 0]

Min(a, b) == IF a <= b THEN a ELSE b

\* The whole program state as one record, so that a handler and the commit
\* it causes compose as functions.
St ==
    [book |-> book, audioSegments |-> audioSegments,
     currentSegment |-> currentSegment, isPlaying |-> isPlaying,
     duration |-> duration, currentTime |-> currentTime,
     playbackRate |-> playbackRate, sourceNodeRef |-> sourceNodeRef,
     animationFrameRef |-> animationFrameRef,
     startOffsetRef |-> startOffsetRef,
     contextStartTimeRef |-> contextStartTimeRef, sources |-> sources,
     now |-> now, timers |-> timers, run |-> run, hist |-> hist,
     error |-> error, gen |-> gen]

Install(s) ==
    /\ book' = s.book
    /\ audioSegments' = s.audioSegments
    /\ currentSegment' = s.currentSegment
    /\ isPlaying' = s.isPlaying
    /\ duration' = s.duration
    /\ currentTime' = s.currentTime
    /\ playbackRate' = s.playbackRate
    /\ sourceNodeRef' = s.sourceNodeRef
    /\ animationFrameRef' = s.animationFrameRef
    /\ startOffsetRef' = s.startOffsetRef
    /\ contextStartTimeRef' = s.contextStartTimeRef
    /\ sources' = s.sources
    /\ now' = s.now
    /\ timers' = s.timers
    /\ run' = s.run
    /\ hist' = s.hist
    /\ error' = s.error
    /\ gen' = s.gen

\* ------------------------------------------------------------ source nodes

\* context.createBufferSource() ... source.start(0, offset): a node rendering
\* seg's buffer from offset (clamped to the buffer), with the handler and the
\* render's duration its onended closure captured.  A node started at the end
\* of its buffer has nothing to render and ends at once.
NewSource(id, seg, offset, rate, capDuration) ==
    [id |-> id, seg |-> seg.id, bufDur |-> seg.dur,
     startedAt |-> Min(offset, seg.dur), pos |-> Min(offset, seg.dur),
     rate |-> rate,
     state |-> IF offset >= seg.dur THEN "ended" ELSE "playing",
     evt |-> offset >= seg.dur, onended |-> TRUE,
     capDuration |-> capDuration]

SourceIds(s) == {n.id : n \in s.sources}

Node(s, id) == CHOOSE n \in s.sources : n.id = id

FreshId(s) ==
    CHOOSE i \in 1..(Cardinality(s.sources) + 1) :
        /\ i \notin SourceIds(s)
        /\ \A j \in 1..(i - 1) : j \in SourceIds(s)

\* source.stop(): rendering halts and the host queues the node's ended event.
StopNode(n) ==
    IF n.state = "playing"
    THEN [n EXCEPT !.state = "stopped", !.evt = TRUE, !.seg = 0, !.bufDur = 0,
                   !.startedAt = 0, !.pos = 0, !.rate = 0]
    ELSE n

\* A node stays known while the program references it or the host owes it an
\* ended event that a handler will receive; an event dispatched to a node
\* whose onended is null runs no code of the program.
Release(s) ==
    [s EXCEPT !.sources = {n \in @ : \/ n.id = s.sourceNodeRef
                                     \/ n.state = "playing"
                                     \/ (n.evt /\ n.onended)}]

\* cleanupAudio that only stops the node: the handler stays attached and the
\* reference stays set.
cleanupAudio_StopOnly(s) ==
    LET ref == s.sourceNodeRef
        a == IF ref # 0
             THEN [s EXCEPT !.sources = {IF n.id = ref THEN StopNode(n)
                                         ELSE n : n \in @}]
             ELSE s
    IN  Release([a EXCEPT !.animationFrameRef = FALSE])

\* cleanupAudio that detaches the handler and drops the reference but leaves
\* the node rendering.
cleanupAudio_NoStop(s) ==
    LET ref == s.sourceNodeRef
        a == IF ref # 0
             THEN [s EXCEPT
                     !.sources = {IF n.id = ref
                                  THEN [n EXCEPT !.onended = FALSE]
                                  ELSE n : n \in @},
                     !.sourceNodeRef = 0]
             ELSE s
    IN  Release([a EXCEPT !.animationFrameRef = FALSE])

cleanupAudio(s) ==
    LET ref == s.sourceNodeRef
        a == IF ref # 0
             THEN [s EXCEPT
                     !.sources = {IF n.id = ref
                                  THEN StopNode([n EXCEPT !.onended = FALSE])
                                  ELSE n : n \in @},
                     !.sourceNodeRef = 0]
             ELSE s
    IN  Release([a EXCEPT !.animationFrameRef = FALSE])

\* ----------------------------------------------------------------- effects

\* (context.currentTime - contextStartTimeRef.current) * playbackRateRef.current
Elapsed(s) == (s.now - s.contextStartTimeRef) * s.playbackRate

playbackRateEffect(s) ==
    IF s.sourceNodeRef # 0
    THEN [s EXCEPT !.sources = {IF n.id = s.sourceNodeRef
                                THEN [n EXCEPT !.rate = IF n.state = "playing"
                                                        THEN s.playbackRate
                                                        ELSE @]
                                ELSE n : n \in @}]
    ELSE s

\* The main effect with a pause branch that stops the source without folding
\* the elapsed time into startOffsetRef.
mainPlaybackEffect_NoFold(s) ==
    IF s.currentSegment = NoSegment
    THEN [cleanupAudio(s) EXCEPT !.duration = 0, !.currentTime = 0]
    ELSE IF s.isPlaying
    THEN LET c == cleanupAudio(s)
             id == FreshId(c)
         IN  [c EXCEPT
                !.sources = @ \cup {NewSource(id, s.currentSegment,
                                              c.startOffsetRef, s.playbackRate,
                                              s.duration)},
                !.sourceNodeRef = id,
                !.contextStartTimeRef = c.now,
                !.animationFrameRef = TRUE]
    ELSE IF s.sourceNodeRef # 0
    THEN cleanupAudio(s)
    ELSE s

mainPlaybackEffect(s) ==
    IF s.currentSegment = NoSegment
    THEN [cleanupAudio(s) EXCEPT !.duration = 0, !.currentTime = 0]
    ELSE IF s.isPlaying
    THEN LET c == cleanupAudio(s)
             id == FreshId(c)
         IN  [c EXCEPT
                !.sources = @ \cup {NewSource(id, s.currentSegment,
                                              c.startOffsetRef, s.playbackRate,
                                              s.duration)},
                !.sourceNodeRef = id,
                !.contextStartTimeRef = c.now,
                !.animationFrameRef = TRUE]
    ELSE IF s.sourceNodeRef # 0
    THEN cleanupAudio([s EXCEPT !.startOffsetRef =
                          Min(s.startOffsetRef + Elapsed(s), s.duration)])
    ELSE s

segmentChangeEffect(s) ==
    IF s.currentSegment # NoSegment
    THEN [s EXCEPT !.duration = s.currentSegment.dur, !.currentTime = 0,
                   !.startOffsetRef = 0]
    ELSE s

\* The state a render reads and the effects' dependency arrays compare.
Rendered(s) ==
    <<s.currentSegment, s.isPlaying, s.duration, s.currentTime,
      s.playbackRate, s.audioSegments, s.book>>

\* One commit: the effects whose dependencies changed since the previous
\* render, in declaration order.  Each reads the state of its own render;
\* what it sets is seen by the next render.
RunEffects(prev, s) ==
    LET a == IF prev.playbackRate # s.playbackRate
             THEN playbackRateEffect(s) ELSE s
        b == IF \/ prev.currentSegment # s.currentSegment
                \/ prev.isPlaying # s.isPlaying
                \/ prev.duration # s.duration
             THEN mainPlaybackEffect(a) ELSE a
        c == IF prev.currentSegment # s.currentSegment
             THEN segmentChangeEffect(b) ELSE b
    IN  c

RECURSIVE Commit(_, _)
Commit(prev, s) ==
    LET c == RunEffects(prev, s)
    IN  IF Rendered(c) = Rendered(s) THEN c ELSE Commit(s, c)

\* A handler's batched updates u, applied to the rendered state s.
Handled(s, u) == Release(Commit(s, u))

\* ---------------------------------------------------------- engine handlers

IndexOf(segs, id) ==
    IF \E i \in 1..Len(segs) : segs[i].id = id
    THEN CHOOSE i \in 1..Len(segs) :
             segs[i].id = id /\ \A j \in 1..(i - 1) : segs[j].id # id
    ELSE 0

handleTrackEnd(s) ==
    LET segments == s.audioSegments
        currentIndex == IndexOf(segments, s.currentSegment.id)
    IN  IF currentIndex # 0 /\ currentIndex < Len(segments)
        THEN [s EXCEPT !.currentSegment = segments[currentIndex + 1]]
        ELSE [s EXCEPT !.isPlaying = FALSE]

\* source.onended of node n, with the duration its closure captured.
onended(s, n) ==
    IF s.sourceNodeRef = n.id
    THEN LET finalTime == s.startOffsetRef + Elapsed(s)
             hasCompleted == finalTime >= n.capDuration - EndTolerance
         IN  IF hasCompleted THEN handleTrackEnd(s)
             ELSE [s EXCEPT !.isPlaying = FALSE]
    ELSE s

\* tick without the Math.min against the duration.
tick_Unclamped(s) ==
    [s EXCEPT !.currentTime = s.startOffsetRef + Elapsed(s)]

\* tick, the frame callback, with the duration of the render that started it.
tick(s) ==
    LET capDuration == IF s.sourceNodeRef # 0
                       THEN Node(s, s.sourceNodeRef).capDuration
                       ELSE s.duration
    IN  [s EXCEPT !.currentTime = Min(s.startOffsetRef + Elapsed(s),
                                      capDuration)]

\* handlePlaybackRequest that rewinds when it toggles the selected segment.
handlePlaybackRequest_Rewinds(s, segmentToPlay) ==
    IF s.currentSegment.id = segmentToPlay.id
    THEN [s EXCEPT !.isPlaying = ~@, !.startOffsetRef = 0]
    ELSE [s EXCEPT !.currentSegment = segmentToPlay, !.isPlaying = TRUE]

handlePlaybackRequest(s, segmentToPlay) ==
    IF s.currentSegment.id = segmentToPlay.id
    THEN [s EXCEPT !.isPlaying = ~@]
    ELSE [s EXCEPT !.currentSegment = segmentToPlay, !.isPlaying = TRUE]

\* handleMainPlayPause without the first-segment fallback.
handleMainPlayPause_NoFallback(s, newIsPlayingState) ==
    IF s.currentSegment # NoSegment
    THEN [s EXCEPT !.isPlaying = newIsPlayingState]
    ELSE s

handleMainPlayPause(s, newIsPlayingState) ==
    IF s.currentSegment # NoSegment
    THEN [s EXCEPT !.isPlaying = newIsPlayingState]
    ELSE IF Len(s.audioSegments) > 0
    THEN [s EXCEPT !.currentSegment = s.audioSegments[1], !.isPlaying = TRUE]
    ELSE s

\* handleSeek that moves the displayed position only.
handleSeek_KeepsOffset(s, newTime) ==
    LET a == [s EXCEPT !.currentTime = newTime]
    IN  IF s.isPlaying
        THEN [a EXCEPT !.isPlaying = FALSE, !.timers = @ + 1]
        ELSE a

handleSeek(s, newTime) ==
    LET a == [s EXCEPT !.currentTime = newTime, !.startOffsetRef = newTime]
    IN  IF s.isPlaying
        THEN [a EXCEPT !.isPlaying = FALSE, !.timers = @ + 1]
        ELSE a

handlePlaybackRateChange(s, newRate) == [s EXCEPT !.playbackRate = newRate]

handleAutoplayFirstSegment(s, segment, capIsPlaying, capHasSegment) ==
    IF ~capIsPlaying /\ ~capHasSegment
    THEN [s EXCEPT !.currentSegment = segment, !.isPlaying = TRUE]
    ELSE s

resetState(s) ==
    [s EXCEPT !.book = "null", !.audioSegments = <<>>,
              !.currentSegment = NoSegment, !.error = "null",
              !.isPlaying = FALSE]

handleBookParsed(s, parsedBook) == [resetState(s) EXCEPT !.book = parsedBook]

\* ------------------------------------------- the pipeline, as the engine sees it

\* A call of handleGenerate touches the engine in two places only: it
\* appends each page's segment to the playlist and hands the segment of page
\* `from` to the onAutoplayFirstSegment it captured when it was called.  The
\* run is therefore kept as: in flight or not, whether page `from` is still
\* to come, and the isPlaying and currentSegment its callback closed over.
\* Which pages are blank, which batch fails and when the user stops the run
\* are choices of the environment here.
IdleRun ==
    [active |-> FALSE, first |-> FALSE, capIsPlaying |-> FALSE,
     capHasSegment |-> FALSE]

\* Page `from` is behind the run: its callback is not called again.
AfterFirstPage == [IdleRun EXCEPT !.active = TRUE]

handleGenerate(s) ==
    [s EXCEPT !.run = [active |-> TRUE, first |-> TRUE,
                       capIsPlaying |-> s.isPlaying,
                       capHasSegment |-> s.currentSegment # NoSegment]]

\* The page's batch resolved: newSegment is appended and, for page `from`,
\* offered for autoplay.
appendSegment(s, dur) ==
    LET newSegment == [id |-> Len(s.audioSegments) + 1, dur |-> dur]
        a == [s EXCEPT !.audioSegments = Append(@, newSegment),
                       !.run = AfterFirstPage]
    IN  IF s.run.first
        THEN handleAutoplayFirstSegment(a, newSegment, s.run.capIsPlaying,
                                        s.run.capHasSegment)
        ELSE a

\* ----------------------------------------------------------------- actions

\* No book is loaded: the AudioController is not mounted.
Unmounted == [mounted |-> FALSE]

Hist(op, t) == [op |-> op, t |-> t]

\* The handler's updates u take effect, the commit they cause included.
Do(u, h) ==
    \E r \in {Handled(St, [u EXCEPT !.hist = h])} :
        r.timers <= MaxTimers /\ Install(r)

\* The ended event the host owes a stopped node is dispatched before the
\* next user, timer, frame or pipeline task.
Quiet == \A n \in sources : n.evt => n.state = "ended"

\* The player and the playlist are rendered by the AudioController, which is
\* mounted while a book is loaded, once the playlist is not empty.
PlayerShown == book # "null" /\ Len(audioSegments) > 0

\* 1 while the referenced node is rendering, else 0.
WasRendering ==
    IF sourceNodeRef # 0 /\ Node(St, sourceNodeRef).state = "playing"
    THEN 1 ELSE 0

HandlePlaybackRequest ==
    /\ Quiet /\ PlayerShown
    /\ \E i \in 1..Len(audioSegments) :
           Do(handlePlaybackRequest(St, audioSegments[i]),
              IF currentSegment.id # audioSegments[i].id
              THEN Hist("select", WasRendering)
              ELSE IF isPlaying THEN Hist("pause", WasRendering)
              ELSE IF hist.op = "seekPaused" THEN Hist("resumeAfterSeek", hist.t)
              ELSE IF hist.op = "pause"
              THEN Hist("resumeAfterPause", startOffsetRef)
              ELSE Hist("resume", 0))

HandleMainPlayPause ==
    /\ Quiet /\ PlayerShown
    /\ Do(handleMainPlayPause(St, ~isPlaying),
          IF currentSegment = NoSegment THEN Hist("playFirst", 0)
          ELSE IF isPlaying THEN Hist("pause", WasRendering)
          ELSE IF hist.op = "seekPaused" THEN Hist("resumeAfterSeek", hist.t)
          ELSE IF hist.op = "pause"
          THEN Hist("resumeAfterPause", startOffsetRef)
          ELSE Hist("resume", 0))

\* The seek slider ranges over [0, duration] in steps of 0.1 s.
HandleSeek ==
    /\ Quiet /\ PlayerShown
    /\ \E newTime \in 0..duration :
           Do(handleSeek(St, newTime),
              IF currentSegment = NoSegment THEN Hist("other", 0)
              ELSE Hist(IF isPlaying THEN "seekPlaying" ELSE "seekPaused",
                        newTime))

HandlePlaybackRateChange ==
    /\ Quiet /\ PlayerShown
    /\ \E newRate \in Rates \ {playbackRate} :
           Do(handlePlaybackRateChange(St, newRate),
              IF hist.op \in {"tick", "rate"} THEN Hist("rate", hist.t)
              ELSE Hist("other", 0))

\* The timeout handleSeek set: setIsPlaying(true).
SeekTimer ==
    /\ Quiet /\ timers > 0
    /\ Do([St EXCEPT !.timers = @ - 1, !.isPlaying = TRUE],
          IF hist.op = "seekPlaying" THEN Hist("seekRestart", hist.t)
          ELSE Hist("other", 0))

Tick ==
    /\ Quiet /\ animationFrameRef
    /\ Do(tick(St), Hist("tick", now))

\* The host dispatches the ended event of node n to the handler n holds.
\* hist tells a node that rendered its buffer to the end (with the playlist
\* index of the selected segment, and whether a segment follows it) from a
\* node that was stopped.
DeliverEnded(n) ==
    LET a == [St EXCEPT !.sources = (@ \ {n}) \cup {[n EXCEPT !.evt = FALSE]}]
        currentIndex == IndexOf(audioSegments, currentSegment.id)
    IN  /\ n.evt
        /\ Do(IF n.onended THEN onended(a, n) ELSE a,
              IF ~(n.onended /\ sourceNodeRef = n.id) THEN hist
              ELSE IF n.state # "ended" THEN Hist("endedStopped", currentIndex)
              ELSE IF currentIndex < Len(audioSegments)
              THEN Hist("endedNext", currentIndex)
              ELSE Hist("endedLast", currentIndex))

Ended == \E n \in sources : DeliverEnded(n)

\* The hardware clock advances by one step and every rendering node renders
\* rate units of its buffer; a node that reaches the end of its buffer ends.
\* A 0 ms timeout and an ended event are dispatched within the step in which
\* they became due.
Render(n) ==
    IF n.state # "playing" THEN n
    ELSE IF n.pos + n.rate >= n.bufDur
    THEN [n EXCEPT !.pos = n.bufDur, !.state = "ended", !.evt = TRUE]
    ELSE [n EXCEPT !.pos = @ + n.rate]

AdvanceClock ==
    /\ now < MaxClock
    /\ timers = 0
    /\ \A n \in sources : ~n.evt
    /\ now' = now + 1
    /\ sources' = {Render(n) : n \in sources}
    /\ UNCHANGED <<book, audioSegments, currentSegment, isPlaying, duration,
                   currentTime, playbackRate, sourceNodeRef,
                   animationFrameRef, startOffsetRef, contextStartTimeRef,
                   timers, run, hist, error, gen>>

\* The New Book button, shown while a book is loaded.
ResetState ==
    /\ Quiet /\ book # "null"
    /\ Do(resetState(St), Hist("reset", 0))

\* The FileUploader, shown while no book is loaded, parsed a book.
HandleBookParsed ==
    /\ Quiet /\ book = "null"
    /\ Do(handleBookParsed(St, "book"), Hist("reset", 0))

\* The Generate button of the mounted controller, with a valid page range.
\* One call is in flight at a time.
HandleGenerate ==
    /\ Quiet /\ book # "null"
    /\ ~run.active
    /\ Do(handleGenerate(St), hist)

\* Page `from` is blank: it yields no segment and no autoplay.
SkipFirstPage ==
    /\ Quiet /\ run.active /\ run.first
    /\ Do([St EXCEPT !.run = AfterFirstPage], hist)

AppendSegment ==
    /\ Quiet /\ run.active
    /\ Len(audioSegments) < MaxSegments
    /\ \E dur \in Durations :
           LET u == appendSegment(St, dur)
           IN  Do(u, IF u.currentSegment # currentSegment
                     THEN Hist("autoplay", 0) ELSE hist)

\* The call returns: the range is exhausted, the user stopped it or a
\* synthesis call failed.
RunEnds ==
    /\ Quiet /\ run.active
    /\ Do([St EXCEPT !.run = IdleRun], hist)

Init ==
    /\ book = "null"
    /\ audioSegments = <<>>
    /\ currentSegment = NoSegment
    /\ isPlaying = FALSE
    /\ duration = 0
    /\ currentTime = 0
    /\ playbackRate = DefaultRate
    /\ sourceNodeRef = 0
    /\ animationFrameRef = FALSE
    /\ startOffsetRef = 0
    /\ contextStartTimeRef = 0
    /\ sources = {}
    /\ now = 0
    /\ timers = 0
    /\ run = IdleRun
    /\ hist = Hist("other", 0)
    /\ error = "null"
    /\ gen = Unmounted

Next ==
    \/ HandlePlaybackRequest
    \/ HandleMainPlayPause
    \/ HandleSeek
    \/ HandlePlaybackRateChange
    \/ SeekTimer
    \/ Tick
    \/ Ended
    \/ AdvanceClock
    \/ ResetState
    \/ HandleBookParsed
    \/ HandleGenerate
    \/ SkipFirstPage
    \/ AppendSegment
    \/ RunEnds

Spec == Init /\ [][Next]_vars

\* ------------------------------------------------------- text and chunking

\* A text is a sequence of one-character strings.
Whitespace == {" ", "\n", "\r", "\t"}

\* The characters of the class [.!?\n\r] of getSentencesFromText.
Terminators == {".", "!", "?", "\n", "\r"}

\* MAX_CHARS_PER_REQUEST, scaled from 4500 characters to 2.
MAX_CHARS_PER_REQUEST == 2

Max(a, b) == IF a >= b THEN a ELSE b

\* String.prototype.trim
trim(text) ==
    LET inked == {i \in 1..Len(text) : text[i] \notin Whitespace}
        first == CHOOSE i \in inked : \A j \in inked : i <= j
        last == CHOOSE i \in inked : \A j \in inked : i >= j
    IN  IF inked = {} THEN <<>> ELSE SubSeq(text, first, last)

\* The length of the match of \s* at 0-based position q.
WhitespaceRun(text, q) ==
    LET stops == {k \in (q + 1)..Len(text) : text[k] \notin Whitespace}
    IN  IF stops = {} THEN Len(text) - q
        ELSE (CHOOSE k \in stops : \A j \in stops : k <= j) - (q + 1)

\* text.split(/(?<=[.!?\n\r]+)\s*/) from piece start p, trying a match at q
\* (both 0-based): a match needs a terminator just before q and takes the
\* whitespace that follows; an empty match at the piece start splits nothing.
RECURSIVE SplitFrom(_, _, _)
SplitFrom(text, p, q) ==
    IF q >= Len(text) THEN <<SubSeq(text, p + 1, Len(text))>>
    ELSE IF q >= 1 /\ text[q] \in Terminators
    THEN LET e == q + WhitespaceRun(text, q)
         IN  IF e = p THEN SplitFrom(text, p, q + 1)
             ELSE <<SubSeq(text, p + 1, q)>> \o SplitFrom(text, e, e)
    ELSE SplitFrom(text, p, q + 1)

IsInked(s) == trim(s) # <<>>

getSentencesFromText(text) ==
    IF trim(text) = <<>> THEN <<>>
    ELSE SelectSeq(SplitFrom(text, 0, 0), IsInked)

\* HardSlices that pushes the sentence whole.
HardSlices_Whole(sentence) == <<sentence>>

\* HardSlices that cuts the short slice first.
HardSlices_ShortFirst(sentence) ==
    LET n == (Len(sentence) + MAX_CHARS_PER_REQUEST - 1)
                \div MAX_CHARS_PER_REQUEST
        short == Len(sentence) - (n - 1) * MAX_CHARS_PER_REQUEST
    IN  [k \in 1..n |->
            IF k = 1 THEN SubSeq(sentence, 1, short)
            ELSE SubSeq(sentence, short + (k - 2) * MAX_CHARS_PER_REQUEST + 1,
                        short + (k - 1) * MAX_CHARS_PER_REQUEST)]

\* sentence.substring(i, i + MAX_CHARS_PER_REQUEST) for i = 0, MAX, 2 MAX, ...
HardSlices(sentence) ==
    LET n == (Len(sentence) + MAX_CHARS_PER_REQUEST - 1)
                \div MAX_CHARS_PER_REQUEST
    IN  [k \in 1..n |->
            SubSeq(sentence, (k - 1) * MAX_CHARS_PER_REQUEST + 1,
                   Min(k * MAX_CHARS_PER_REQUEST, Len(sentence)))]

\* The loop of calculateChunks from sentence i on.
RECURSIVE ChunkLoop(_, _, _, _)
ChunkLoop(sentences, i, textChunks, currentChunk) ==
    LET flushed == IF currentChunk # <<>>
                   THEN Append(textChunks, currentChunk) ELSE textChunks
    IN  IF i > Len(sentences) THEN flushed
        ELSE IF Len(sentences[i]) > MAX_CHARS_PER_REQUEST
        THEN ChunkLoop(sentences, i + 1, flushed \o HardSlices(sentences[i]),
                       <<>>)
        ELSE IF Len(currentChunk) + Len(sentences[i]) > MAX_CHARS_PER_REQUEST
        THEN ChunkLoop(sentences, i + 1, Append(textChunks, currentChunk),
                       sentences[i])
        ELSE ChunkLoop(sentences, i + 1, textChunks,
                       currentChunk \o sentences[i])

\* calculateChunks that takes a text of one inked character for a blank one.
calculateChunks_DropsShort(text) ==
    IF Len(trim(text)) <= 1 THEN <<>>
    ELSE ChunkLoop(getSentencesFromText(text), 1, <<>>, <<>>)

calculateChunks(text) ==
    IF trim(text) = <<>> THEN <<>>
    ELSE ChunkLoop(getSentencesFromText(text), 1, <<>>, <<>>)

\* ------------------------------------------------------------------- audio

\* The characters the texts of the model are written in.
Alphabet == <<"a", "b", "c", ".", " ", "\n">>

CharCode(c) == CHOOSE i \in 1..Len(Alphabet) : Alphabet[i] = c

RECURSIVE Flatten(_)
Flatten(seqs) ==
    IF seqs = <<>> THEN <<>> ELSE Head(seqs) \o Flatten(Tail(seqs))

\* generateSpeech(chunk), when it resolves: the base64 payload of raw 16-bit
\* little-endian PCM, here one frame per character of the chunk.
generateSpeech(chunk) ==
    [base64 |-> Flatten([k \in 1..Len(chunk) |-> <<CharCode(chunk[k]), 0>>])]

\* decode(base64): the bytes the payload stands for.
decode(payload) == payload.base64

\* decodeAudioData: the bytes read as Int16 frames; a channel value is the
\* frame divided by 32768 and is kept as its numerator.
decodeAudioData(data) ==
    LET frameCount == Len(data) \div 2
        int16(k) == LET u == data[2 * k - 1] + 256 * data[2 * k]
                    IN  IF u >= 32768 THEN u - 65536 ELSE u
    IN  [length |-> frameCount, channelData |-> [k \in 1..frameCount |-> int16(k)]]

\* concatAudioBuffers that copies the buffers from the last to the first.
concatAudioBuffers_Reversed(buffers) ==
    IF Len(buffers) = 0 THEN [length |-> 1, channelData |-> <<0>>]
    ELSE [length |-> Len(Flatten([k \in 1..Len(buffers) |->
                                     buffers[k].channelData])),
          channelData |-> Flatten([k \in 1..Len(buffers) |->
                                      buffers[Len(buffers) + 1 - k].channelData])]

concatAudioBuffers(buffers) ==
    IF Len(buffers) = 0 THEN [length |-> 1, channelData |-> <<0>>]
    ELSE [length |-> Len(Flatten([k \in 1..Len(buffers) |->
                                     buffers[k].channelData])),
          channelData |-> Flatten([k \in 1..Len(buffers) |->
                                      buffers[k].channelData])]

\* -------------------------------------------------------- the page pipeline

\* The book of the mounted controller has MaxPages pages and the playlist a
\* run may fill holds at most MaxPlaylist segments.
MaxPages == 3
MaxPlaylist == 2

\* The page texts of the model: a blank page, a page of one chunk and a page
\* of two full chunks with no sentence boundary.
PageTexts == {<<" ">>, <<"a">>, <<"a", "b", "c", "a">>}

\* The numbers a page field can be given.
PageNumbers == 0..(MaxPages + 1)

\* What the user can type into a page field.
PageInputs == {""} \cup {ToString(n) : n \in PageNumbers}

\* parseInt(value, 10) of a typed number.
parseInt(value) == CHOOSE n \in PageNumbers : ToString(n) = value

\* Number(fromPage): a page field holds '' or a number, kept as typed.
Number(field) == IF field = "" THEN 0 ELSE parseInt(field)

\* SECONDS_PER_CHUNK, 1.2 s, and the second the countdown takes off at each
\* tick, in tenths of a second.
SECONDS_PER_CHUNK == 12
CountdownStep == 10

IdleStatus ==
    [isGenerating |-> FALSE, progress |-> 0, total |-> 0, message |-> "",
     estimatedTime |-> 0]

\* What the model remembers of the last run for the claims: the synthesis
\* calls issued, as <<page, chunk>>, and those of them resolved, the pages
\* whose segment was appended, the playlist length when the run started,
\* whether a stop was signalled and the playlist and the number of issued
\* calls when it first was, the page whose batch failed with the playlist,
\* the number of issued calls and the number of resolved calls of the batch
\* at the failure, the order in which the calls of the last appended page
\* completed, the generation status the finally block found, and how the
\* run ended.
NoLog ==
    [issued |-> <<>>, resolved |-> {}, appended |-> <<>>, startLen |-> 0,
     stopped |-> FALSE, stopPlaylist |-> <<>>, stopIssued |-> 0,
     failedPage |-> 0, failPlaylist |-> <<>>, failIssued |-> 0,
     failDone |-> 0, lastOrder |-> <<>>, endStatus |-> IdleStatus,
     outcome |-> "none"]

\* The AudioController as it mounts for a book.
mountController(pages) ==
    [mounted |-> TRUE, pages |-> pages, fromPage |-> "1",
     toPage |-> ToString(Min(10, Len(pages))),
     generationStatus |-> IdleStatus, isCancelledRef |-> FALSE,
     from |-> 0, to |-> 0, pageNum |-> 0, textChunks |-> <<>>,
     done |-> <<>>, log |-> NoLog]

handlePageInputChange(s, field, value) ==
    IF value = "" THEN [s EXCEPT !.gen[field] = ""]
    ELSE IF parseInt(value) > 0
    THEN [s EXCEPT !.gen[field] = ToString(parseInt(value))]
    ELSE s

handleStop(s) ==
    [s EXCEPT !.gen.isCancelledRef = TRUE,
              !.gen.generationStatus.message = "Cancelling generation...",
              !.gen.log.stopped = TRUE,
              !.gen.log.stopPlaylist =
                  IF s.gen.log.stopped THEN @ ELSE s.audioSegments,
              !.gen.log.stopIssued =
                  IF s.gen.log.stopped THEN @ ELSE Len(s.gen.log.issued)]

\* finallyBlock that leaves the generation status as it is.
finallyBlock_KeepsStatus(s, outcome) ==
    [s EXCEPT !.error = IF s.gen.isCancelledRef
                        THEN "Audio generation was cancelled by the user."
                        ELSE @,
              !.gen.isCancelledRef = FALSE,
              !.gen.pageNum = 0, !.gen.textChunks = <<>>, !.gen.done = <<>>,
              !.gen.log.endStatus = s.gen.generationStatus,
              !.gen.log.outcome = outcome,
              !.run = IdleRun]

\* finallyBlock that leaves the cancellation flag as it is.
finallyBlock_KeepsFlag(s, outcome) ==
    [s EXCEPT !.error = IF s.gen.isCancelledRef
                        THEN "Audio generation was cancelled by the user."
                        ELSE @,
              !.gen.generationStatus = IdleStatus,
              !.gen.pageNum = 0, !.gen.textChunks = <<>>, !.gen.done = <<>>,
              !.gen.log.endStatus = s.gen.generationStatus,
              !.gen.log.outcome = outcome,
              !.run = IdleRun]

\* The finally block of handleGenerate.
finallyBlock(s, outcome) ==
    [s EXCEPT !.error = IF s.gen.isCancelledRef
                        THEN "Audio generation was cancelled by the user."
                        ELSE @,
              !.gen.isCancelledRef = FALSE,
              !.gen.generationStatus = IdleStatus,
              !.gen.pageNum = 0, !.gen.textChunks = <<>>, !.gen.done = <<>>,
              !.gen.log.endStatus = s.gen.generationStatus,
              !.gen.log.outcome = outcome,
              !.run = IdleRun]

\* What a synthesis call can be rejected with: an Error carrying a message
\* or a value that is not an Error.
RejectionReasons ==
    {[isError |-> TRUE, message |-> "Speech synthesis failed."],
     [isError |-> FALSE, message |-> ""]}

\* The history of a failure: the page in hand and the playlist, the issued
\* calls and the resolved calls when its batch was rejected.
LogFailure(s) ==
    [s EXCEPT !.gen.log.failedPage = s.gen.pageNum,
              !.gen.log.failPlaylist = s.audioSegments,
              !.gen.log.failIssued = Len(s.gen.log.issued),
              !.gen.log.failDone = Len(s.gen.done)]

\* catchBlock that reports nothing.
catchBlock_Silent(s, err) == finallyBlock(LogFailure(s), "failed")

\* The catch block, then the finally block: a synthesis call of the page
\* in hand was rejected with err.
catchBlock(s, err) ==
    finallyBlock(
        [LogFailure(s) EXCEPT
            !.error = IF ~s.gen.isCancelledRef
                      THEN IF err.isError THEN err.message
                           ELSE "An unknown error occurred during audio generation."
                      ELSE @],
        "failed")

\* The page loop from the top of the iteration for pageNum up to the first
\* await that waits for a response, or the end of the call.  A batch of no
\* calls resolves at once to no buffer and the page is passed over.
RECURSIVE pageLoop(_, _)
pageLoop(s, pageNum) ==
    IF pageNum > s.gen.to THEN finallyBlock(s, "completed")
    ELSE IF s.gen.isCancelledRef THEN finallyBlock(s, "cancelled")
    ELSE LET textToProcess == s.gen.pages[pageNum]
             textChunks == calculateChunks(textToProcess)
             a == [s EXCEPT !.gen.generationStatus.message =
                                "Processing page " \o ToString(pageNum) \o "...",
                            !.gen.pageNum = pageNum]
         IN  IF trim(textToProcess) = <<>>
             THEN pageLoop([a EXCEPT !.gen.generationStatus.progress = @ + 1,
                                     !.run.first = FALSE],
                           pageNum + 1)
             ELSE IF Len(textChunks) = 0
             THEN pageLoop([a EXCEPT !.gen.generationStatus.progress = @ + 1],
                           pageNum + 1)
             ELSE [a EXCEPT !.gen.textChunks = textChunks,
                            !.gen.done = <<>>,
                            !.gen.log.issued =
                                @ \o [i \in 1..Len(textChunks) |-> <<pageNum, i>>]]

\* Promise.all collecting the results in the order the calls completed.
promiseAll_CompletionOrder(textChunks, done) ==
    [k \in 1..Len(done) |-> generateSpeech(textChunks[done[k]])]

\* Promise.all over the calls of the page: the results in the order of the
\* calls, whatever the order `done` in which they completed.
promiseAll(textChunks, done) ==
    [i \in 1..Len(textChunks) |-> generateSpeech(textChunks[i])]

\* batchResolved tagging the segment with the range of the run.
batchResolved_TagsRun(s) ==
    LET g == s.gen
        base64AudioChunks == promiseAll(g.textChunks, g.done)
        audioBuffers == [i \in 1..Len(base64AudioChunks) |->
                            decodeAudioData(decode(base64AudioChunks[i]))]
        combinedAudioBuffer == IF Len(audioBuffers) > 1
                               THEN concatAudioBuffers(audioBuffers)
                               ELSE audioBuffers[1]
        newSegment == [id |-> Len(s.audioSegments) + 1,
                       dur |-> combinedAudioBuffer.length,
                       text |-> g.pages[g.pageNum],
                       audio |-> combinedAudioBuffer,
                       pageRange |-> [from |-> g.from, to |-> g.to]]
        a == [s EXCEPT !.audioSegments = Append(@, newSegment),
                       !.gen.log.appended = Append(@, g.pageNum),
                       !.gen.log.lastOrder = g.done,
                       !.run.first = FALSE]
        b == IF g.pageNum = g.from
             THEN handleAutoplayFirstSegment(a, newSegment, s.run.capIsPlaying,
                                             s.run.capHasSegment)
             ELSE a
    IN  IF g.isCancelledRef THEN finallyBlock(s, "cancelled")
        ELSE pageLoop([b EXCEPT !.gen.generationStatus.progress = @ + 1],
                      g.pageNum + 1)

\* batchResolved without the test of the cancel flag after the await.
batchResolved_NoCancelCheck(s) ==
    LET g == s.gen
        base64AudioChunks == promiseAll(g.textChunks, g.done)
        audioBuffers == [i \in 1..Len(base64AudioChunks) |->
                            decodeAudioData(decode(base64AudioChunks[i]))]
        combinedAudioBuffer == IF Len(audioBuffers) > 1
                               THEN concatAudioBuffers(audioBuffers)
                               ELSE audioBuffers[1]
        newSegment == [id |-> Len(s.audioSegments) + 1,
                       dur |-> combinedAudioBuffer.length,
                       text |-> g.pages[g.pageNum],
                       audio |-> combinedAudioBuffer,
                       pageRange |-> [from |-> g.pageNum, to |-> g.pageNum]]
        a == [s EXCEPT !.audioSegments = Append(@, newSegment),
                       !.gen.log.appended = Append(@, g.pageNum),
                       !.gen.log.lastOrder = g.done,
                       !.run.first = FALSE]
        b == IF g.pageNum = g.from
             THEN handleAutoplayFirstSegment(a, newSegment, s.run.capIsPlaying,
                                             s.run.capHasSegment)
             ELSE a
    IN  pageLoop([b EXCEPT !.gen.generationStatus.progress = @ + 1],
                      g.pageNum + 1)

\* batchResolved that leaves the progress as it is.
batchResolved_NoProgress(s) ==
    LET g == s.gen
        base64AudioChunks == promiseAll(g.textChunks, g.done)
        audioBuffers == [i \in 1..Len(base64AudioChunks) |->
                            decodeAudioData(decode(base64AudioChunks[i]))]
        combinedAudioBuffer == IF Len(audioBuffers) > 1
                               THEN concatAudioBuffers(audioBuffers)
                               ELSE audioBuffers[1]
        newSegment == [id |-> Len(s.audioSegments) + 1,
                       dur |-> combinedAudioBuffer.length,
                       text |-> g.pages[g.pageNum],
                       audio |-> combinedAudioBuffer,
                       pageRange |-> [from |-> g.pageNum, to |-> g.pageNum]]
        a == [s EXCEPT !.audioSegments = Append(@, newSegment),
                       !.gen.log.appended = Append(@, g.pageNum),
                       !.gen.log.lastOrder = g.done,
                       !.run.first = FALSE]
        b == IF g.pageNum = g.from
             THEN handleAutoplayFirstSegment(a, newSegment, s.run.capIsPlaying,
                                             s.run.capHasSegment)
             ELSE a
    IN  IF g.isCancelledRef THEN finallyBlock(s, "cancelled")
        ELSE pageLoop(b, g.pageNum + 1)

\* batchResolved that takes the first buffer for the audio of the page.
batchResolved_FirstBufferOnly(s) ==
    LET g == s.gen
        base64AudioChunks == promiseAll(g.textChunks, g.done)
        audioBuffers == [i \in 1..Len(base64AudioChunks) |->
                            decodeAudioData(decode(base64AudioChunks[i]))]
        combinedAudioBuffer == audioBuffers[1]
        newSegment == [id |-> Len(s.audioSegments) + 1,
                       dur |-> combinedAudioBuffer.length,
                       text |-> g.pages[g.pageNum],
                       audio |-> combinedAudioBuffer,
                       pageRange |-> [from |-> g.pageNum, to |-> g.pageNum]]
        a == [s EXCEPT !.audioSegments = Append(@, newSegment),
                       !.gen.log.appended = Append(@, g.pageNum),
                       !.gen.log.lastOrder = g.done,
                       !.run.first = FALSE]
        b == IF g.pageNum = g.from
             THEN handleAutoplayFirstSegment(a, newSegment, s.run.capIsPlaying,
                                             s.run.capHasSegment)
             ELSE a
    IN  IF g.isCancelledRef THEN finallyBlock(s, "cancelled")
        ELSE pageLoop([b EXCEPT !.gen.generationStatus.progress = @ + 1],
                      g.pageNum + 1)

\* The rest of the iteration once every call of the page has resolved.
batchResolved(s) ==
    LET g == s.gen
        base64AudioChunks == promiseAll(g.textChunks, g.done)
        audioBuffers == [i \in 1..Len(base64AudioChunks) |->
                            decodeAudioData(decode(base64AudioChunks[i]))]
        combinedAudioBuffer == IF Len(audioBuffers) > 1
                               THEN concatAudioBuffers(audioBuffers)
                               ELSE audioBuffers[1]
        newSegment == [id |-> Len(s.audioSegments) + 1,
                       dur |-> combinedAudioBuffer.length,
                       text |-> g.pages[g.pageNum],
                       audio |-> combinedAudioBuffer,
                       pageRange |-> [from |-> g.pageNum, to |-> g.pageNum]]
        a == [s EXCEPT !.audioSegments = Append(@, newSegment),
                       !.gen.log.appended = Append(@, g.pageNum),
                       !.gen.log.lastOrder = g.done,
                       !.run.first = FALSE]
        b == IF g.pageNum = g.from
             THEN handleAutoplayFirstSegment(a, newSegment, s.run.capIsPlaying,
                                             s.run.capHasSegment)
             ELSE a
    IN  IF g.isCancelledRef THEN finallyBlock(s, "cancelled")
        ELSE pageLoop([b EXCEPT !.gen.generationStatus.progress = @ + 1],
                      g.pageNum + 1)

\* resolved letting the run go on with the first call that resolves.
resolved_FirstWins(s, i) ==
    batchResolved([s EXCEPT !.gen.done = Append(@, i),
                            !.gen.log.resolved = @ \cup {<<s.gen.pageNum, i>>}])

\* Call i of the page in hand resolved; the last one lets the run go on.
resolved(s, i) ==
    LET a == [s EXCEPT !.gen.done = Append(@, i),
                       !.gen.log.resolved = @ \cup {<<s.gen.pageNum, i>>}]
    IN  IF Len(a.gen.done) = Len(a.gen.textChunks) THEN batchResolved(a) ELSE a

\* The sum of calculateChunks(book.pages[i - 1]).length for i = from..to.
RECURSIVE totalChunks(_, _, _)
totalChunks(pages, from, to) ==
    IF from > to THEN 0
    ELSE Len(calculateChunks(pages[from])) + totalChunks(pages, from + 1, to)

initialEstimate(pages, from, to) ==
    totalChunks(pages, from, to) * SECONDS_PER_CHUNK

\* handleGenerate without the from > to test of its range check.
handleGenerateOnPages_NoOrderCheck(s) ==
    LET from == Number(s.gen.fromPage)
        to == Number(s.gen.toPage)
        a == handleGenerate(s)
    IN  IF from < 1 \/ to > Len(s.gen.pages)
        THEN [s EXCEPT !.error = "Invalid page range."]
        ELSE pageLoop([a EXCEPT !.error = "null",
                                !.gen.isCancelledRef = FALSE,
                                !.gen.from = from, !.gen.to = to,
                                !.gen.generationStatus =
                                    [isGenerating |-> TRUE, progress |-> 0,
                                     total |-> to - from + 1,
                                     message |-> "Starting generation...",
                                     estimatedTime |->
                                         initialEstimate(s.gen.pages, from, to)],
                                !.gen.log = [NoLog EXCEPT !.startLen =
                                                 Len(s.audioSegments)]],
                      from)

\* handleGenerate as the controller runs it, up to its first await.
handleGenerateOnPages(s) ==
    LET from == Number(s.gen.fromPage)
        to == Number(s.gen.toPage)
        a == handleGenerate(s)
    IN  IF from > to \/ from < 1 \/ to > Len(s.gen.pages)
        THEN [s EXCEPT !.error = "Invalid page range."]
        ELSE pageLoop([a EXCEPT !.error = "null",
                                !.gen.isCancelledRef = FALSE,
                                !.gen.from = from, !.gen.to = to,
                                !.gen.generationStatus =
                                    [isGenerating |-> TRUE, progress |-> 0,
                                     total |-> to - from + 1,
                                     message |-> "Starting generation...",
                                     estimatedTime |->
                                         initialEstimate(s.gen.pages, from, to)],
                                !.gen.log = [NoLog EXCEPT !.startLen =
                                                 Len(s.audioSegments)]],
                      from)

\* countdownTick without the floor.
countdownTick_NoFloor(s) ==
    [s EXCEPT !.gen.generationStatus.estimatedTime = @ - CountdownStep]

\* The callback of the countdown interval.
countdownTick(s) ==
    [s EXCEPT !.gen.generationStatus.estimatedTime =
                  Max(0, @ - CountdownStep)]

\* The countdown effect keeps an interval of one second armed while its
\* condition holds.
countdownArmed(s) ==
    s.gen.generationStatus.isGenerating
        /\ s.gen.generationStatus.estimatedTime > 0

\* The calls of the page in hand that have not completed.
Pending == (1..Len(gen.textChunks)) \ {gen.done[k] : k \in 1..Len(gen.done)}

\* The pages of p..q that are not blank.
InkedPages(p, q) == {n \in p..q : trim(gen.pages[n]) # <<>>}

\* The locals of a call that has returned and the history of its run are
\* kept until the next thing the user does.
Forget(s) == [s EXCEPT !.gen.from = 0, !.gen.to = 0, !.gen.log = NoLog]

HandlePageInputChange ==
    /\ gen.mounted /\ ~gen.generationStatus.isGenerating
    /\ \E field \in {"fromPage", "toPage"}, value \in PageInputs :
           Do(Forget(handlePageInputChange(St, field, value)),
              Hist("input", 0))

\* The Generate button while no run is in flight.
HandleGenerateOnPages ==
    /\ gen.mounted /\ ~gen.generationStatus.isGenerating
    /\ LET u == handleGenerateOnPages(St)
       IN  /\ Len(audioSegments)
                 + Cardinality(InkedPages(Max(Number(gen.fromPage), 1),
                                          Min(Number(gen.toPage), Len(gen.pages))))
                 <= MaxPlaylist
           /\ Do(u, Hist("generate", 0))

\* The same button while a run is in flight.
HandleStop ==
    /\ gen.mounted /\ gen.generationStatus.isGenerating
    /\ Do(handleStop(St), Hist("stop", 0))

SynthesisResolves ==
    /\ gen.mounted /\ gen.generationStatus.isGenerating
    /\ \E i \in Pending :
           LET u == resolved(St, i)
           IN  Do(u, IF u.currentSegment # currentSegment
                     THEN Hist("autoplay", 0) ELSE Hist("resolve", 0))

CountdownTick ==
    /\ gen.mounted /\ countdownArmed(St)
    /\ Do(countdownTick(St), hist)

SynthesisRejects ==
    /\ gen.mounted /\ gen.generationStatus.isGenerating
    /\ \E i \in Pending, err \in RejectionReasons :
           Do(catchBlock(St, err), Hist("reject", 0))

\* The state once the FileUploader has parsed a book.
InitGen ==
    /\ book = "book"
    /\ audioSegments = <<>>
    /\ currentSegment = NoSegment
    /\ isPlaying = FALSE
    /\ duration = 0
    /\ currentTime = 0
    /\ playbackRate = DefaultRate
    /\ sourceNodeRef = 0
    /\ animationFrameRef = FALSE
    /\ startOffsetRef = 0
    /\ contextStartTimeRef = 0
    /\ sources = {}
    /\ now = 0
    /\ timers = 0
    /\ run = IdleRun
    /\ hist = Hist("reset", 0)
    /\ error = "null"
    /\ gen \in {mountController(pages) : pages \in [1..MaxPages -> PageTexts]}

NextGen ==
    \/ HandlePageInputChange
    \/ HandleGenerateOnPages
    \/ HandleStop
    \/ SynthesisResolves
    \/ SynthesisRejects

\* The pipeline with the page fields open to typing.  The estimate is read
\* by the countdown only, which is left to SpecRun.
SpecGen == InitGen /\ [][NextGen]_vars

\* What typing can leave in a page field.
FieldValues == {""} \cup {ToString(n) : n \in 1..(MaxPages + 1)}

\* A book is loaded and the user has typed a page range.
InitRun ==
    /\ book = "book"
    /\ audioSegments = <<>>
    /\ currentSegment = NoSegment
    /\ isPlaying = FALSE
    /\ duration = 0
    /\ currentTime = 0
    /\ playbackRate = DefaultRate
    /\ sourceNodeRef = 0
    /\ animationFrameRef = FALSE
    /\ startOffsetRef = 0
    /\ contextStartTimeRef = 0
    /\ sources = {}
    /\ now = 0
    /\ timers = 0
    /\ run = IdleRun
    /\ hist = Hist("input", 0)
    /\ error = "null"
    /\ gen \in {[mountController(pages) EXCEPT !.fromPage = f, !.toPage = t] :
                   pages \in [1..MaxPages -> PageTexts],
                   f \in FieldValues, t \in FieldValues}

NextRun ==
    \/ HandleGenerateOnPages
    \/ HandleStop
    \/ SynthesisResolves
    \/ SynthesisRejects
    \/ CountdownTick

\* The runs over a typed range, with the countdown of the estimate.
SpecRun == InitRun /\ [][NextRun]_vars

\* A call of the batch in flight settles: the steps of SynthesisResolves and
\* SynthesisRejects, told by the history only they leave.  While the batch
\* has a call in flight one of the two can always be taken.
SynthesisSettles ==
    /\ gen.generationStatus.isGenerating /\ Pending # {}
    /\ hist' \in {Hist("resolve", 0), Hist("reject", 0), Hist("autoplay", 0)}

\* Every issued synthesis call eventually resolves or is rejected.
LiveRun == SpecRun /\ WF_hist(SynthesisSettles)

\* ------------------------------------------------- the chunker on its own

\* The texts calculateChunks is applied to have at most MaxLen characters.
MaxLen == 5

TextChars == {"a", ".", " ", "\n"}

Texts == UNION {[1..n -> TextChars] : n \in 0..MaxLen}

\* The variables other than gen, as App has them before a book is loaded.
AppIdle ==
    /\ book = "null"
    /\ audioSegments = <<>>
    /\ currentSegment = NoSegment
    /\ isPlaying = FALSE
    /\ duration = 0
    /\ currentTime = 0
    /\ playbackRate = DefaultRate
    /\ sourceNodeRef = 0
    /\ animationFrameRef = FALSE
    /\ startOffsetRef = 0
    /\ contextStartTimeRef = 0
    /\ sources = {}
    /\ now = 0
    /\ timers = 0
    /\ run = IdleRun
    /\ hist = Hist("other", 0)
    /\ error = "null"

AppUnchanged ==
    UNCHANGED <<book, audioSegments, currentSegment, isPlaying, duration,
                currentTime, playbackRate, sourceNodeRef, animationFrameRef,
                startOffsetRef, contextStartTimeRef, sources, now, timers,
                run, hist, error>>

\* A call of calculateChunks(text) about to be made.
InitChunk ==
    /\ AppIdle
    /\ gen \in {[text |-> text, returned |-> FALSE, textChunks |-> <<>>] :
                   text \in Texts}

CalculateChunks ==
    /\ ~gen.returned
    /\ gen' = [gen EXCEPT !.returned = TRUE,
                          !.textChunks = calculateChunks(gen.text)]
    /\ AppUnchanged

NextChunk == CalculateChunks

SpecChunk == InitChunk /\ [][NextChunk]_vars

\* ------------------------------------------ concatAudioBuffers on its own

\* concatAudioBuffers is given at most MaxBuffers buffers of at most
\* MaxFrames frames each.
MaxBuffers == 2
MaxFrames == 2

\* Frame values: numerators of -1/32768, 0 and 1/32768.
Samples == {0 - 1, 0, 1}

\* A buffer has as many frames as its length says, and at least one.
AudioBuffers ==
    {[length |-> Len(data), channelData |-> data] :
        data \in UNION {[1..m -> Samples] : m \in 1..MaxFrames}}

\* A call of concatAudioBuffers(buffers) about to be made.
InitConcat ==
    /\ AppIdle
    /\ gen \in {[buffers |-> buffers, returned |-> FALSE,
                  result |-> [length |-> 0, channelData |-> <<>>]] :
                   buffers \in UNION {[1..n -> AudioBuffers] :
                                         n \in 0..MaxBuffers}}

ConcatAudioBuffers ==
    /\ ~gen.returned
    /\ gen' = [gen EXCEPT !.returned = TRUE,
                          !.result = concatAudioBuffers(gen.buffers)]
    /\ AppUnchanged

NextConcat == ConcatAudioBuffers

SpecConcat == InitConcat /\ [][NextConcat]_vars

\* ------------------------------------------------------------------ claims

\* The node the engine references; read only where sourceNodeRef # 0.
RefNode == Node(St, sourceNodeRef)

\* The referenced node is rendering its buffer.
Rendering == sourceNodeRef # 0 /\ RefNode.state = "playing"

PlayingNodes == {n \in sources : n.state = "playing"}

\* The selected segment is in the playlist and a segment follows it.
HasNext ==
    LET currentIndex == IndexOf(audioSegments, currentSegment.id)
    IN  currentIndex # 0 /\ currentIndex < Len(audioSegments)

\* C1: after seek(t) issued while a segment is playing, rendering restarts at
\* buffer offset exactly t: once the deferred restart has run, startOffsetRef
\* and the offset the new source was started at both equal t.
C1_SeekWhilePlayingRestartsAtTarget ==
    hist.op = "seekRestart" =>
        /\ startOffsetRef = hist.t
        /\ sourceNodeRef # 0
        /\ RefNode.startedAt = hist.t

\* C2: a rate change while a source is rendering causes no jump: the first
\* position reported after the change equals the position reported before it
\* plus the clock time since that report times the new rate (capped at the
\* duration).
C2_RateChangeCausesNoJump ==
    [][(hist.op = "rate" /\ Rendering /\ Tick) =>
          currentTime' = Min(currentTime + (now - hist.t) * playbackRate,
                             duration)]_vars

\* C3: while a source is rendering with no seek and no segment change, the
\* reported position never decreases from one report to the next, rate
\* changes between the two reports included.
C3_PositionNeverDecreases ==
    [][(hist.op \in {"tick", "rate"} /\ Rendering /\ Tick) =>
          currentTime' >= currentTime]_vars

\* C4: when the source of a segment that is not the last of the playlist
\* renders to the end of its buffer, the engine selects the next segment,
\* keeps isPlaying true and is rendering that segment.
C4_NaturalEndAdvances ==
    hist.op = "endedNext" =>
        /\ currentSegment = audioSegments[hist.t + 1]
        /\ isPlaying
        /\ sourceNodeRef # 0
        /\ RefNode.seg = currentSegment.id

\* C5: when the source of the last segment renders to the end of its buffer,
\* the engine is paused with no rendering source and no position loop, and
\* both the reported position and startOffsetRef equal the duration.
C5_LastSegmentEndsAtDuration ==
    hist.op = "endedLast" =>
        /\ ~isPlaying
        /\ sourceNodeRef = 0
        /\ PlayingNodes = {}
        /\ ~animationFrameRef
        /\ currentTime = duration
        /\ startOffsetRef = duration

\* C6: the selected segment changes only on a selection by the user or the
\* pipeline, on a reset, or on the ended event of the referenced source that
\* rendered its buffer to the end; the ended event of a source the engine
\* stopped never changes it.
C6_OnlyNaturalEndAdvances ==
    [][(/\ currentSegment' # currentSegment
        /\ hist'.op \notin {"select", "playFirst", "autoplay", "reset"}) =>
          /\ hist'.op = "endedNext"
          /\ \E n \in sources : /\ n.id = sourceNodeRef
                                /\ n.state = "ended"
                                /\ n.pos = n.bufDur
                                /\ n.seg = currentSegment.id]_vars

\* C6 witness: the user paused a rendering source within the end tolerance
\* of a segment that has a successor, and the selection stayed.
C6_Witness ==
    /\ hist.op = "pause" /\ hist.t = 1
    /\ HasNext
    /\ startOffsetRef >= duration - EndTolerance
    /\ ~isPlaying
    /\ sources = {}

\* C7: at most one source renders at any time, it is the one the engine
\* references, and every other known source has no handler attached.
C7_AtMostOneActiveSource ==
    /\ Cardinality(PlayingNodes) <= 1
    /\ \A n \in sources : n.id # sourceNodeRef =>
                             n.state # "playing" /\ ~n.onended

\* C7 witness: a segment was selected while another source was rendering,
\* and exactly the new source renders.
C7_Witness ==
    /\ hist.op = "select" /\ hist.t = 1
    /\ sourceNodeRef # 0
    /\ PlayingNodes = {RefNode}

\* C8: after a segment change (a user selection, the first-segment fallback,
\* autoplay, or auto-advance) startOffsetRef is 0 and the source rendering the
\* new segment was started at buffer offset 0.
C8_SegmentChangeStartsAtZero ==
    (\/ hist.op \in {"select", "playFirst", "autoplay"}
     \/ (hist.op = "endedNext" /\ currentSegment.id = hist.t + 1)) =>
        /\ startOffsetRef = 0
        /\ sourceNodeRef # 0 => RefNode.startedAt = 0

\* C9 as stated: the main play control used with no segment selected changes
\* nothing, whatever the playlist holds.
C9_PlayWithNoSelectionIsNoOp ==
    [][(currentSegment = NoSegment /\ hist'.op = "playFirst") =>
          UNCHANGED <<book, audioSegments, currentSegment, isPlaying,
                      duration, currentTime, playbackRate, sourceNodeRef,
                      animationFrameRef, startOffsetRef, contextStartTimeRef,
                      sources, now, timers, run>>]_vars

\* C9 amended: the main play control used with no segment selected and a
\* non-empty playlist selects the first segment of the playlist and plays it
\* with startOffsetRef 0, the source started at buffer offset 0.
C9_PlayWithNoSelectionPlaysFirst ==
    hist.op = "playFirst" =>
        /\ currentSegment = audioSegments[1]
        /\ isPlaying
        /\ startOffsetRef = 0
        /\ sourceNodeRef # 0
        /\ RefNode.seg = audioSegments[1].id
        /\ RefNode.startedAt = 0

\* C9 witness: the control was used with nothing selected and the first
\* segment is now selected and rendering.
C9_Witness ==
    /\ hist.op = "playFirst"
    /\ currentSegment = audioSegments[1]
    /\ Len(audioSegments) > 1
    /\ isPlaying
    /\ sourceNodeRef # 0
    /\ RefNode.state = "playing"

\* C10: seek(t) while paused sets the reported position and startOffsetRef to
\* t with isPlaying still false, and the next play of the segment starts its
\* source at buffer offset t, however far the clock moved in between.
C10_PausedSeekThenPlayStartsAtTarget ==
    /\ hist.op = "seekPaused" =>
          /\ ~isPlaying
          /\ currentTime = hist.t
          /\ startOffsetRef = hist.t
    /\ hist.op = "resumeAfterSeek" =>
          /\ isPlaying
          /\ startOffsetRef = hist.t
          /\ sourceNodeRef # 0
          /\ RefNode.startedAt = hist.t

\* C10 witness: play resumed after a paused seek to t > 0, the clock having
\* moved since the segment was first started, and the source started at t.
C10_Witness ==
    /\ hist.op = "resumeAfterSeek"
    /\ hist.t > 0
    /\ contextStartTimeRef > 0
    /\ sourceNodeRef # 0
    /\ RefNode.startedAt = hist.t

\* The step is a play/pause request that found the selected segment playing.
PauseStep == hist'.op = "pause" /\ hist.op # "pause"

\* The step is a play/pause request that found the selected segment paused.
ResumeStep ==
    /\ hist'.op \in {"resume", "resumeAfterPause", "resumeAfterSeek"}
    /\ hist.op \notin {"resume", "resumeAfterPause", "resumeAfterSeek"}

C12_PauseFoldsOnceAndIsIdempotent ==
    [][/\ PauseStep =>
             /\ startOffsetRef' = Min(startOffsetRef + Elapsed(St), duration)
             /\ ~isPlaying'
             /\ sourceNodeRef' = 0
             /\ ~animationFrameRef'
             /\ \A n \in sources' : n.state # "playing"
       /\ (~isPlaying /\ currentSegment # NoSegment) =>
             Handled(St, handleMainPlayPause(St, FALSE)) = St]_vars

\* C12 witness: a rendering source was paused before the end of its segment
\* and the clock has moved on since the pause.
C12_Witness ==
    /\ hist.op = "pause" /\ hist.t = 1
    /\ ~isPlaying
    /\ startOffsetRef > 0 /\ startOffsetRef < duration
    /\ now > contextStartTimeRef + startOffsetRef
    /\ Handled(St, handleMainPlayPause(St, FALSE)) = St

GenerateStep == hist'.op = "generate" /\ hist.op # "generate"

\* The page fields satisfy 1 <= from <= to <= pageCount.
RangeOk ==
    /\ 1 <= Number(gen.fromPage)
    /\ Number(gen.fromPage) <= Number(gen.toPage)
    /\ Number(gen.toPage) <= Len(gen.pages)

\* C14: a press of Generate with a page range that violates
\* 1 <= from <= to <= pageCount (an empty field counts as 0) changes nothing
\* but the error message, which becomes 'Invalid page range.': no synthesis
\* call is issued, no segment is appended and the generation status keeps
\* isGenerating false and its progress and total.
C14_InvalidRangeSetsOnlyError ==
    [][(GenerateStep /\ ~RangeOk) =>
          St' = [St EXCEPT !.error = "Invalid page range.", !.hist = hist']]_vars

C14_Witness ==
    /\ hist.op = "generate" /\ error = "Invalid page range."
    /\ gen.fromPage = "" /\ ~gen.generationStatus.isGenerating
    /\ gen.log.issued = <<>> /\ audioSegments = <<>>

\* The segments the last run has appended.
NewSegments == SubSeq(audioSegments, gen.log.startLen + 1, Len(audioSegments))

\* C15: when a run over [from, to] has completed normally, the segments it
\* appended are exactly one per page of the range whose text is not blank,
\* in ascending page order, each tagged pageRange = {page, page}, and none
\* of its synthesis calls was for a blank page.
C15_OneSegmentPerInkedPage ==
    gen.mounted /\ gen.log.outcome = "completed" =>
        /\ Len(NewSegments) = Cardinality(InkedPages(gen.from, gen.to))
        /\ {NewSegments[k].pageRange.from : k \in 1..Len(NewSegments)}
               = InkedPages(gen.from, gen.to)
        /\ \A k \in 1..Len(NewSegments) :
               /\ NewSegments[k].pageRange.to = NewSegments[k].pageRange.from
               /\ k > 1 => NewSegments[k - 1].pageRange.from
                               < NewSegments[k].pageRange.from
        /\ \A k \in 1..Len(gen.log.issued) :
               trim(gen.pages[gen.log.issued[k][1]]) # <<>>

\* A run over [1, 3] with page 2 blank has completed with two segments,
\* tagged pages 1 and 3.
C15_Witness ==
    /\ gen.log.outcome = "completed" /\ gen.from = 1 /\ gen.to = 3
    /\ trim(gen.pages[2]) = <<>>
    /\ Len(audioSegments) = 2
    /\ audioSegments[1].pageRange = [from |-> 1, to |-> 1]
    /\ audioSegments[2].pageRange = [from |-> 3, to |-> 3]

\* C16: from the moment stop is signalled during a run, the playlist stays
\* what it was at the signal (the segments the run had appended are kept and
\* none is added, in particular none for the page whose batch was in
\* flight) and the run issues no further synthesis call.
C16_StopFreezesPlaylistAndCalls ==
    gen.mounted /\ gen.log.stopped =>
        /\ audioSegments = gen.log.stopPlaylist
        /\ Len(gen.log.issued) = gen.log.stopIssued

\* The run over [1, 2] was stopped while the batch of page 2 was in flight,
\* after the segment of page 1 had been appended; the batch has resolved and
\* the run has ended without a segment for page 2.
C16_Witness ==
    /\ gen.log.stopped /\ gen.log.outcome = "cancelled" /\ hist.op = "resolve"
    /\ gen.from = 1 /\ gen.to = 2
    /\ gen.log.appended = <<1>> /\ Len(audioSegments) = 1
    /\ gen.log.issued[Len(gen.log.issued)][1] = 2

\* The messages a failed synthesis call puts into the error state.
FailureMessages ==
    {"Speech synthesis failed.",
     "An unknown error occurred during audio generation."}

\* C17 as stated: whenever a synthesis call of a page has failed, the
\* failure is what the error state reports.
C17_FailureIsSurfaced ==
    gen.mounted /\ gen.log.outcome = "failed" => error \in FailureMessages

\* C17, amended: when a synthesis call of a page has failed, the playlist is
\* what it was at the failure and holds no segment of the run for that page
\* or a later one, no call was issued at or after the failure or for a later
\* page, the run is over, and the error state reports the failure unless
\* stop had been signalled before it, in which case it reports the
\* cancellation.
C17_FailureHaltsRunKeepsEarlier ==
    gen.mounted /\ gen.log.outcome = "failed" =>
        /\ audioSegments = gen.log.failPlaylist
        /\ Len(gen.log.issued) = gen.log.failIssued
        /\ \A k \in 1..Len(NewSegments) :
               NewSegments[k].pageRange.from < gen.log.failedPage
        /\ \A k \in 1..Len(gen.log.issued) :
               gen.log.issued[k][1] <= gen.log.failedPage
        /\ ~gen.generationStatus.isGenerating /\ Pending = {}
        /\ IF gen.log.stopped
           THEN error = "Audio generation was cancelled by the user."
           ELSE error \in FailureMessages

\* The run over [1, 2] appended the segment of page 1; of the two calls of
\* page 2 one resolved and the other was rejected: the playlist holds the
\* segment of page 1 only and the failure is reported.
C17_Witness ==
    /\ gen.log.outcome = "failed" /\ ~gen.log.stopped /\ hist.op = "reject"
    /\ gen.from = 1 /\ gen.log.failedPage = 2 /\ gen.log.failDone = 1
    /\ Len(audioSegments) = 1 /\ audioSegments[1].pageRange.from = 1
    /\ error = "Speech synthesis failed."

\* The error banner of App is rendered exactly when the error state is a
\* non-empty string.
BannerShown == error # "null" /\ error # ""

\* C18: after a run that the user cancelled has ended, the error state that
\* drives the error banner is not set.
C18_CancelledRunSetsNoError ==
    (gen.mounted /\ gen.log.stopped /\ gen.log.outcome = "cancelled")
        => ~BannerShown

\* The decoded buffers of the chunks of a page text, in chunk order.
ChunkBuffers(text) ==
    [i \in 1..Len(calculateChunks(text)) |->
        decodeAudioData(decode(generateSpeech(calculateChunks(text)[i])))]

\* C19: the audio of every segment is the concatenation of the decoded
\* buffers of its page's chunks in chunk order, whatever the order in which
\* the synthesis calls of the page completed.
C19_AudioInChunkOrder ==
    gen.mounted =>
        \A k \in 1..Len(audioSegments) :
            LET buffers == ChunkBuffers(gen.pages[audioSegments[k].pageRange.from])
                frames == Flatten([i \in 1..Len(buffers) |->
                                      buffers[i].channelData])
            IN  /\ audioSegments[k].audio.channelData = frames
                /\ audioSegments[k].audio.length = Len(frames)

\* The two calls of a page completed in reverse order and its segment holds
\* the frames of chunk 1 followed by those of chunk 2.
C19_Witness ==
    /\ gen.mounted /\ gen.log.lastOrder = <<2, 1>> /\ Len(audioSegments) > 0
    /\ audioSegments[Len(audioSegments)].text = <<"a", "b", "c", "a">>
    /\ audioSegments[Len(audioSegments)].audio.channelData
           = <<CharCode("a"), CharCode("b"), CharCode("c"), CharCode("a")>>

\* C20: within a run the synthesis calls are issued in ascending page order,
\* and whenever a call for a later page has been issued every call of each
\* earlier page has resolved and that page's segment has been appended.
C20_PagesInOrderOneAtATime ==
    gen.mounted =>
        \A j, k \in 1..Len(gen.log.issued) :
            j < k =>
                /\ gen.log.issued[j][1] <= gen.log.issued[k][1]
                /\ gen.log.issued[j][1] < gen.log.issued[k][1] =>
                      /\ gen.log.issued[j] \in gen.log.resolved
                      /\ \E n \in 1..Len(NewSegments) :
                             NewSegments[n].pageRange.from = gen.log.issued[j][1]

\* The calls of page 2 are in flight; both calls of page 1 have resolved
\* and its segment is in the playlist.
C20_Witness ==
    /\ gen.mounted /\ gen.generationStatus.isGenerating
    /\ gen.pageNum = 2 /\ Pending # {}
    /\ {<<1, 1>>, <<1, 2>>} \subseteq gen.log.resolved
    /\ Len(NewSegments) = 1 /\ NewSegments[1].pageRange.from = 1

\* The pages of the range before page n have been fully processed: each is
\* blank or has its segment among those the run appended.
ProcessedBefore(n) ==
    \A q \in gen.from..(n - 1) :
        \/ trim(gen.pages[q]) = <<>>
        \/ \E k \in 1..Len(NewSegments) : NewSegments[k].pageRange.from = q

\* C21: progress counts whole pages.  In every state 0 <= progress <= total;
\* while a run is generating, total = to - from + 1 and progress is the
\* number of pages of the range before the page whose batch is in flight,
\* all of them fully processed, so it is the same for the whole batch; the
\* finally block of a run that completes normally finds progress = total.
C21_ProgressCountsWholePages ==
    gen.mounted =>
        /\ 0 <= gen.generationStatus.progress
        /\ gen.generationStatus.progress <= gen.generationStatus.total
        /\ gen.generationStatus.isGenerating =>
              /\ gen.generationStatus.total = gen.to - gen.from + 1
              /\ gen.pageNum \in gen.from..gen.to
              /\ gen.generationStatus.progress = gen.pageNum - gen.from
              /\ ProcessedBefore(gen.pageNum)
        /\ gen.log.outcome = "completed" =>
              /\ gen.log.endStatus.progress = gen.to - gen.from + 1
              /\ gen.log.endStatus.total = gen.to - gen.from + 1

\* The run over [1, 3] has passed page 1 and the blank page 2; one of the
\* two calls of page 3 has resolved and progress is still 2 of 3.
C21_Witness ==
    /\ gen.mounted /\ gen.generationStatus.isGenerating
    /\ gen.from = 1 /\ gen.to = 3 /\ gen.pageNum = 3
    /\ trim(gen.pages[2]) = <<>> /\ Len(NewSegments) = 1
    /\ Len(gen.done) = 1 /\ Len(gen.textChunks) = 2
    /\ gen.generationStatus.progress = 2 /\ gen.generationStatus.total = 3

\* C22: provided every issued synthesis call eventually resolves or is
\* rejected, every run that is generating eventually is not, and whenever no
\* run is generating the generation status is the cleared one (isGenerating
\* false, progress 0, total 0, empty message, estimate 0) whether the last
\* run completed, was cancelled or failed.
C22_RunReturnsToIdle ==
    /\ [](gen.generationStatus.isGenerating =>
             <>(~gen.generationStatus.isGenerating))
    /\ [](~gen.generationStatus.isGenerating =>
             /\ gen.generationStatus = IdleStatus
             /\ gen.log.outcome \in {"none", "completed", "cancelled", "failed"})

\* A run that was generating with a running countdown has been cancelled
\* and the status is cleared.
C22_Witness ==
    /\ gen.log.outcome = "cancelled" /\ gen.log.endStatus.isGenerating
    /\ gen.log.endStatus.estimatedTime > 0
    /\ gen.log.endStatus.estimatedTime
           < initialEstimate(gen.pages, gen.from, gen.to)
    /\ gen.generationStatus = IdleStatus

\* C23: the estimate is never negative.  It is 0 while no run is generating,
\* where a tick of the countdown would change nothing; it changes only by
\* the seed totalChunks x SECONDS_PER_CHUNK when a run starts, by the reset
\* to 0 when the run ends, and by a tick while generating, which takes one
\* second off, floors at 0 and touches nothing else.
C23_EstimateNeverNegative ==
    /\ [](/\ gen.generationStatus.estimatedTime >= 0
          /\ countdownTick(St).gen.generationStatus.estimatedTime >= 0
          /\ ~gen.generationStatus.isGenerating =>
                /\ gen.generationStatus.estimatedTime = 0
                /\ countdownTick(St) = St)
    /\ [][gen'.generationStatus.estimatedTime
             # gen.generationStatus.estimatedTime =>
            \/ /\ ~gen.generationStatus.isGenerating
               /\ gen'.generationStatus.isGenerating
               /\ gen'.generationStatus.estimatedTime
                     = SECONDS_PER_CHUNK
                         * Len(Flatten([n \in 1..(gen'.to - gen'.from + 1) |->
                               calculateChunks(gen.pages[gen'.from + n - 1])]))
            \/ /\ gen.generationStatus.isGenerating
               /\ ~gen'.generationStatus.isGenerating
               /\ gen'.generationStatus.estimatedTime = 0
            \/ /\ gen.generationStatus.isGenerating
               /\ gen.generationStatus.estimatedTime > 0
               /\ gen'.generationStatus.estimatedTime
                     = Max(0, gen.generationStatus.estimatedTime - CountdownStep)
               /\ St' = [St EXCEPT !.gen.generationStatus.estimatedTime =
                             gen'.generationStatus.estimatedTime]]_vars

\* A run seeded with the estimate of one chunk, 1.2 s, is still generating
\* after two ticks: the second one floored the 0.2 s left at 0.
C23_Witness ==
    /\ gen.mounted /\ gen.generationStatus.isGenerating /\ Pending # {}
    /\ initialEstimate(gen.pages, gen.from, gen.to) = SECONDS_PER_CHUNK
    /\ gen.generationStatus.estimatedTime = 0

\* C24: the chunks calculateChunks returns for a text that is not blank,
\* concatenated in order, are the text it was given.
C24_ChunksReconstructText ==
    (gen.returned /\ trim(gen.text) # <<>>) =>
        Flatten(gen.textChunks) = gen.text

\* C25: every chunk calculateChunks returns has between 1 and
\* MAX_CHARS_PER_REQUEST characters.
C25_ChunksWithinBudget ==
    gen.returned =>
        \A k \in 1..Len(gen.textChunks) :
            /\ Len(gen.textChunks[k]) >= 1
            /\ Len(gen.textChunks[k]) <= MAX_CHARS_PER_REQUEST

\* A text of one sentence of five characters came back as the slices of two,
\* two and one character.
C25_Witness ==
    /\ gen.returned /\ gen.text = <<"a", "a", "a", "a", "a">>
    /\ Len(gen.textChunks) = 3 /\ Len(gen.textChunks[3]) = 1

\* C26: calculateChunks returns no chunk exactly when all characters of the
\* text, if it has any, are whitespace.
C26_NoChunkIffBlank ==
    gen.returned =>
        (Len(gen.textChunks) = 0
            <=> \A i \in 1..Len(gen.text) : gen.text[i] \in Whitespace)

\* A text of whitespace and one inked character came back as one chunk.
C26_Witness ==
    /\ gen.returned /\ gen.text = <<" ", "a">>
    /\ gen.textChunks = <<<<" ", "a">>>>

\* The number of characters of the first n of the sequences seqs.
RECURSIVE LenUpTo(_, _)
LenUpTo(seqs, n) ==
    IF n = 0 THEN 0 ELSE Len(seqs[n]) + LenUpTo(seqs, n - 1)

\* Where the chunks begin and end, counted in characters of the sentences.
Boundaries == {LenUpTo(gen.textChunks, m) : m \in 0..Len(gen.textChunks)}

\* C29: the chunks are the sentences cut up, and a sentence longer than
\* MAX_CHARS_PER_REQUEST begins and ends at a chunk boundary (so it shares
\* no chunk with the sentence before or after it, a pending chunk having
\* been flushed) and is cut inside exactly at every multiple of
\* MAX_CHARS_PER_REQUEST from its start.
C29_LongSentenceIsSlicedAlone ==
    gen.returned =>
        LET sentences == getSentencesFromText(gen.text)
        IN  /\ Flatten(gen.textChunks) = Flatten(sentences)
            /\ \A i \in 1..Len(sentences) :
                   Len(sentences[i]) > MAX_CHARS_PER_REQUEST =>
                       LET start == LenUpTo(sentences, i - 1)
                           end == LenUpTo(sentences, i)
                       IN  Boundaries \cap (start..end)
                             = {end} \cup {b \in start..end :
                                    (b - start) % MAX_CHARS_PER_REQUEST = 0}

\* A sentence of three characters between two short sentences: the chunks
\* are the first sentence, the slices of two and of one character, and the
\* last sentence.
C29_Witness ==
    /\ gen.returned /\ gen.text = <<".", "a", "a", ".", "a">>
    /\ gen.textChunks = <<<<".">>, <<"a", "a">>, <<".">>, <<"a">>>>

\* The frame counts of the decoded responses to the k slices of
\* MAX_CHARS_PER_REQUEST characters of text.
SliceFrames(text, k) ==
    [n \in 1..k |->
        decodeAudioData(decode(generateSpeech(
            SubSeq(text, (n - 1) * MAX_CHARS_PER_REQUEST + 1,
                   n * MAX_CHARS_PER_REQUEST)))).channelData]

\* C27: a run over a single page whose text has no sentence terminator and
\* k x MAX_CHARS_PER_REQUEST characters, once completed, has issued exactly
\* k synthesis calls and appended exactly one segment, whose frame count
\* and duration are the sum of the frame counts of the k decoded chunks.
C27_FullSlicesGiveOneSegment ==
    (/\ gen.mounted /\ gen.log.outcome = "completed" /\ gen.from = gen.to
     /\ Len(gen.pages[gen.from]) > 0
     /\ Len(gen.pages[gen.from]) % MAX_CHARS_PER_REQUEST = 0
     /\ \A i \in 1..Len(gen.pages[gen.from]) :
            gen.pages[gen.from][i] \notin Terminators \cup Whitespace)
    => LET text == gen.pages[gen.from]
           k == Len(text) \div MAX_CHARS_PER_REQUEST
       IN  /\ Len(gen.log.issued) = k
           /\ Len(NewSegments) = 1
           /\ NewSegments[1].audio.length = LenUpTo(SliceFrames(text, k), k)
           /\ NewSegments[1].dur = LenUpTo(SliceFrames(text, k), k)

\* The run over one page of four characters has completed with two calls
\* and one segment of four frames.
C27_Witness ==
    /\ gen.mounted /\ gen.log.outcome = "completed" /\ gen.from = gen.to
    /\ gen.pages[gen.from] = <<"a", "b", "c", "a">>
    /\ Len(gen.log.issued) = 2 /\ Len(NewSegments) = 1
    /\ NewSegments[1].audio.length = 4

\* The frames of the first n of the buffers.
RECURSIVE FramesUpTo(_, _)
FramesUpTo(buffers, n) ==
    IF n = 0 THEN 0 ELSE buffers[n].length + FramesUpTo(buffers, n - 1)

\* C28: concatAudioBuffers of no buffer returns a buffer of one frame; of
\* some buffers, a buffer whose frame count is the sum of theirs and whose
\* frames are theirs in input order, each buffer's frames starting where the
\* frames of the buffers before it end.
C28_ConcatKeepsFramesInOrder ==
    gen.returned =>
        /\ gen.result.length = Len(gen.result.channelData)
        /\ IF Len(gen.buffers) = 0 THEN gen.result.length = 1
           ELSE /\ gen.result.length = FramesUpTo(gen.buffers, Len(gen.buffers))
                /\ \A i \in 1..Len(gen.buffers) :
                       \A k \in 1..gen.buffers[i].length :
                           gen.result.channelData[FramesUpTo(gen.buffers, i - 1) + k]
                               = gen.buffers[i].channelData[k]

\* A buffer of one frame and a buffer of two came back as a buffer of the
\* three frames in that order.
C28_Witness ==
    /\ gen.returned
    /\ gen.buffers = <<[length |-> 1, channelData |-> <<1>>],
                       [length |-> 2, channelData |-> <<0 - 1, 0>>]>>
    /\ gen.result = [length |-> 3, channelData |-> <<1, 0 - 1, 0>>]

\* C30: while no book is loaded, which is the state a session reset leaves
\* until the next book is parsed and in which no run can be started, the
\* playlist is empty: a run started before the reset adds nothing to it.
C30_ResetPlaylistStaysEmpty ==
    book = "null" => audioSegments = <<>>

\* The step in which a run appends the segment of page `from`, the one it
\* offers for autoplay.
AppendsFirstSegment ==
    /\ run.active /\ run.first
    /\ Len(audioSegments') = Len(audioSegments) + 1

\* C31: when the first segment of a run is appended while a segment is
\* selected or playback is on, whatever the state was when the run was
\* started, the selected segment, isPlaying and the start offset stay as
\* they are.
C31_AutoplayOnlyWhenNothingSelected ==
    [][AppendsFirstSegment /\ (currentSegment # NoSegment \/ isPlaying)
           => /\ currentSegment' = currentSegment
              /\ isPlaying' = isPlaying
              /\ startOffsetRef' = startOffsetRef]_vars

\* C32: in every reachable state isPlaying is true only if a segment is
\* selected.
C32_PlayingImpliesSelected ==
    isPlaying => currentSegment # NoSegment

\* ------------------------------------------------- one run after another

\* The history of a run, with how the run accepted before it ended.
WithPrior(g, outcome) == [g EXCEPT !.log = [prior |-> outcome] @@ @]

\* A book is loaded, the user has typed a page range and no run has been
\* accepted.
InitStop ==
    /\ book = "book"
    /\ audioSegments = <<>>
    /\ currentSegment = NoSegment
    /\ isPlaying = FALSE
    /\ duration = 0
    /\ currentTime = 0
    /\ playbackRate = DefaultRate
    /\ sourceNodeRef = 0
    /\ animationFrameRef = FALSE
    /\ startOffsetRef = 0
    /\ contextStartTimeRef = 0
    /\ sources = {}
    /\ now = 0
    /\ timers = 0
    /\ run = IdleRun
    /\ hist = Hist("input", 0)
    /\ error = "null"
    /\ gen \in {WithPrior([mountController(pages) EXCEPT !.fromPage = f,
                                                        !.toPage = t],
                          "none") :
                   pages \in [1..MaxPages -> PageTexts],
                   f \in FieldValues, t \in FieldValues}

\* The Generate button while no run is in flight; an accepted run's history
\* keeps the outcome of the run before it.
HandleGenerateAfter ==
    /\ gen.mounted /\ ~gen.generationStatus.isGenerating
    /\ LET u == handleGenerateOnPages(St)
       IN  /\ Len(audioSegments)
                 + Cardinality(InkedPages(Max(Number(gen.fromPage), 1),
                                          Min(Number(gen.toPage), Len(gen.pages))))
                 <= MaxPlaylist
           /\ Do(IF RangeOk
                 THEN [u EXCEPT !.gen = WithPrior(@, gen.log.outcome)]
                 ELSE u,
                 Hist("generate", 0))

NextStop ==
    \/ HandleGenerateAfter
    \/ HandleStop
    \/ SynthesisResolves
    \/ SynthesisRejects

\* Runs over a typed range one after another, stopped or not.
SpecStop == InitStop /\ [][NextStop]_vars

\* C33: a stop request affects only the run during which it was signalled.
\* The cancellation flag is false whenever no run is in flight, that is
\* whenever a run can be accepted and after every run has ended; while a run
\* is in flight the flag is set only if stop was signalled during that run;
\* and a run during which no stop was signalled never ends as cancelled: if
\* no synthesis call failed it ends completed with a segment appended for
\* every page of its range that is not blank, however the run before it
\* ended.
C33_StopAffectsOnlyItsRun ==
    gen.mounted =>
        /\ ~gen.generationStatus.isGenerating => ~gen.isCancelledRef
        /\ gen.isCancelledRef => gen.log.stopped
        /\ (gen.log.outcome # "none" /\ ~gen.log.stopped) =>
               /\ gen.log.outcome \in {"completed", "failed"}
               /\ gen.log.outcome = "completed" =>
                      {gen.log.appended[k] : k \in 1..Len(gen.log.appended)}
                          = InkedPages(gen.from, gen.to)

\* A run that was stopped ended as cancelled; the next run over the same
\* range, with no stop signalled, has completed and appended a segment.
C33_Witness ==
    /\ gen.mounted /\ gen.log.prior = "cancelled"
    /\ gen.log.outcome = "completed" /\ ~gen.log.stopped
    /\ ~gen.isCancelledRef /\ ~gen.generationStatus.isGenerating
    /\ gen.log.appended # <<>>

====
